---- MODULE Spec2Model ----
(***************************************************************************)
(* Model of the ache-flow back end: the record store (projetos,            *)
(* funcionarios, tarefas), the row-by-row ingestion of a sheet             *)
(* (ingest.py), the command router (command_router.py) and its two         *)
(* callers, /ai/chat and /webhook (main.py).                               *)
(***************************************************************************)
EXTENDS Integers, Sequences, FiniteSets, TLC

\* ------------------------------------------------------------------
\* Bounds of the model
\* ------------------------------------------------------------------
\* longest sheet (data rows after the header)
MaxRows == 3
\* lowest worksheet row the header may sit on (blank rows above it)
MaxHeaderRow == 2

\* ------------------------------------------------------------------
\* Cell values
\* ------------------------------------------------------------------
\* an empty cell: None in openpyxl, NaN in pandas
NoVal == "<None>"
\* a cell holding only white space
Ws == " "
\* str(v).strip()
Strip(v) == IF v = Ws THEN "" ELSE v
\* Python truthiness of a cell value read by get_val / get: None and ""
\* are falsy, any other string (white space included) is truthy
Truthy(v) == v # NoVal /\ v # ""
\* the blank test of ingest_xlsx: value is not None and str(value).strip()
CellFilled(v) == v # NoVal /\ Strip(v) # ""

\* date cells: a day number, an empty cell, or text pd.to_datetime coerces to NaT
NoDate == 0
NaT == -1
IsDate(d) == d > 0
\* "Exportação (dias)": a number of days, or no value
NoDias == 0

ValidRow ==
    [proj |-> "Alpha", email |-> "ana@ache.com", nome |-> "T2",
     fim |-> 15, prazo |-> NoDate, inicio |-> NoDate, exp |-> NoDias]
BlankRow ==
    [proj |-> NoVal, email |-> NoVal, nome |-> NoVal,
     fim |-> NoDate, prazo |-> NoDate, inicio |-> NoDate, exp |-> NoDias]
WsRow ==
    [proj |-> Ws, email |-> Ws, nome |-> Ws,
     fim |-> NoDate, prazo |-> NoDate, inicio |-> NoDate, exp |-> NoDias]

\* the rows a sheet is built from: the valid row, the two blank rows, and
\* every row that departs from the valid one in one respect
RowVals ==
    {ValidRow, BlankRow, WsRow,
     [ValidRow EXCEPT !.proj = NoVal],
     [ValidRow EXCEPT !.proj = "Ghost"],
     [ValidRow EXCEPT !.email = NoVal],
     [ValidRow EXCEPT !.email = "ghost@ache.com"],
     [ValidRow EXCEPT !.nome = NoVal],
     [ValidRow EXCEPT !.fim = NoDate],
     [ValidRow EXCEPT !.fim = NaT, !.prazo = 20],
     [ValidRow EXCEPT !.fim = NoDate, !.inicio = 10, !.exp = 5]}

RowCells(row) == {row.proj, row.email, row.nome}
RowDates(row) == {row.fim, row.prazo, row.inicio}

\* a row all of whose cells are empty or white space
IsBlankRow(row) ==
    /\ \A v \in RowCells(row) : ~CellFilled(v)
    /\ \A d \in RowDates(row) : d = NoDate
    /\ row.exp = NoDias

\* ------------------------------------------------------------------
\* Record store
\* ------------------------------------------------------------------
\* the other parts of the program, each idle while another part runs
VARIABLES
    req,            \* the last request served by /ai/chat or /webhook and
                    \* what came of it
    multi,          \* the multi-document ingestion under way
    call,           \* the last call of a helper: its arguments and result
    crud            \* the requests on the records, in order of arrival

VARIABLES
    projetos,       \* Projeto documents, in insertion order
    funcionarios,   \* Funcionario documents, in insertion order
    tarefas         \* Tarefa documents, in insertion order

store == <<projetos, funcionarios, tarefas>>

StatusTarefa == {"em andamento", "congelada", "não iniciada", "concluída"}

Hoje == 100

\* names are kept as the sequence of their words; links as the name of the
\* project and the e-mail of the employee
InitProjetos ==
    << [nome |-> <<"Alpha">>, situacao |-> "não iniciada", prazo |-> Hoje + 30,
        responsavel |-> "ana@ache.com"] >>
InitFuncionarios ==
    << [nome |-> <<"Ana">>, sobrenome |-> <<"Silva">>, email |-> "ana@ache.com"],
       [nome |-> <<"Bia">>, sobrenome |-> <<"Souza">>, email |-> "bia@ache.com"] >>
InitTarefas ==
    << [nome |-> <<"T1">>, projeto |-> <<"Alpha">>, responsavel |-> "ana@ache.com",
        prazo |-> Hoje + 10, status |-> "não iniciada", dataConclusao |-> NoDate] >>

\* (a lookup in the projects the store held when the batch began)
ProjetoByNome_AtStart(nome) ==
    LET hits == {i \in 1..Len(InitProjetos) : InitProjetos[i].nome = <<nome>>}
    IN  IF hits = {} THEN 0 ELSE CHOOSE i \in hits : \A j \in hits : i <= j
\* find_one(Projeto.nome == nome): exact match
ProjetoByNome(nome) ==
    LET hits == {i \in 1..Len(projetos) : projetos[i].nome = <<nome>>}
    IN  IF hits = {} THEN 0 ELSE CHOOSE i \in hits : \A j \in hits : i <= j

\* find_one(Funcionario.email == email): exact match
FuncionarioByEmail(email) ==
    LET hits == {i \in 1..Len(funcionarios) : funcionarios[i].email = email}
    IN  IF hits = {} THEN 0 ELSE CHOOSE i \in hits : \A j \in hits : i <= j

\* ------------------------------------------------------------------
\* Row ingestion (ingest_xlsx and _ingest_tasks_df_from_dataframe)
\* ------------------------------------------------------------------
\* required fields of models.TarefaCreate (those with no default)
TarefaCreateRequired == {"nome", "projeto_id", "responsavel_id", "prazo"}
\* keyword arguments the two ingestion loops pass to TarefaCreate(...)
IngestPayloadFields ==
    {"nome", "projeto_id", "responsavel_id", "como_fazer", "prioridade",
     "condicao", "categoria", "porcentagem", "data_inicio", "data_fim",
     "documento_referencia", "fase", "status"}
\* pydantic validation of TarefaCreate(**kwargs): every required field given
TarefaCreateAccepts(fields) == TarefaCreateRequired \subseteq fields

\* the end date: "Data de Fim", else "Prazo", else "Data de Início" + days
DtFinal(row) ==
    IF IsDate(row.fim) THEN row.fim
    ELSE IF IsDate(row.prazo) THEN row.prazo
    ELSE IF IsDate(row.inicio) /\ row.exp # NoDias THEN row.inicio + row.exp
    ELSE NaT

\* where the store may raise while one row is processed
ExcPoints == {"none", "find_projeto", "find_funcionario", "insert"}

\* (a row loop that goes on when the project is not found)
RowOutcome_NoProjectCheck(row, exc) ==
    IF ~Truthy(row.proj) THEN "projeto_obrigatorio"
    ELSE IF exc = "find_projeto" THEN "excecao_store"
    ELSE IF ~Truthy(row.email) THEN "responsavel_obrigatorio"
    ELSE IF exc = "find_funcionario" THEN "excecao_store"
    ELSE IF FuncionarioByEmail(Strip(row.email)) = 0 THEN "responsavel_nao_encontrado"
    ELSE IF ~Truthy(row.nome) THEN "nome_obrigatorio"
    ELSE IF ~IsDate(DtFinal(row)) THEN "data_obrigatoria"
    ELSE IF ~TarefaCreateAccepts(IngestPayloadFields) THEN "excecao_validacao"
    ELSE IF exc = "insert" THEN "excecao_store"
    ELSE "criada"
\* the body of the per-row try block: "criada" when the task is inserted,
\* otherwise the reason of the error entry appended for the row
RowOutcome(row, exc) ==
    IF ~Truthy(row.proj) THEN "projeto_obrigatorio"
    ELSE IF exc = "find_projeto" THEN "excecao_store"
    ELSE IF ProjetoByNome(Strip(row.proj)) = 0 THEN "projeto_nao_encontrado"
    ELSE IF ~Truthy(row.email) THEN "responsavel_obrigatorio"
    ELSE IF exc = "find_funcionario" THEN "excecao_store"
    ELSE IF FuncionarioByEmail(Strip(row.email)) = 0 THEN "responsavel_nao_encontrado"
    ELSE IF ~Truthy(row.nome) THEN "nome_obrigatorio"
    ELSE IF ~IsDate(DtFinal(row)) THEN "data_obrigatoria"
    ELSE IF ~TarefaCreateAccepts(IngestPayloadFields) THEN "excecao_validacao"
    ELSE IF exc = "insert" THEN "excecao_store"
    ELSE "criada"

\* the Tarefa built from a row
TarefaFromRow(row) ==
    [nome |-> <<Strip(row.nome)>>, projeto |-> <<Strip(row.proj)>>,
     responsavel |-> Strip(row.email), prazo |-> DtFinal(row),
     status |-> "não iniciada", dataConclusao |-> NoDate]

\* the row number the error messages carry: the worksheet row r in
\* ingest_xlsx, the DataFrame index i plus two in the DataFrame loop
LinhaXlsx(header, k) == header + k
\* (a numbering by position among the data rows, the header not counted)
LinhaDf_DataPosition(k) == k
LinhaDf(k) == (k - 1) + 2

\* "linha vazia? pula": only ingest_xlsx has the test
SkipsBlank(path) == path = "xlsx"

VARIABLES
    ingPath,        \* "xlsx" (ingest_xlsx) or "df" (_ingest_tasks_df_from_dataframe)
    headerRow,      \* header_row_idx of the worksheet; 0: no header found
    sheet,          \* the data rows below the header
    ingPos,         \* data rows consumed so far
    created,        \* the loop's counter
    errors,         \* the loop's error list: [linha, motivo], with the
                    \* position of the row among the data rows as history
    createdRows,    \* history: positions of the rows counted in created
    storeFaults,    \* history: positions of the rows where the store raised
    ingPc,          \* "rows", "returned"
    ingResult       \* the dict returned

ingVars ==
    <<ingPath, headerRow, sheet, ingPos, created, errors, createdRows,
      storeFaults, ingPc, ingResult>>


Pending == [pendente |-> TRUE]

Sheets == UNION {[1..n -> RowVals] : n \in 0..MaxRows}

Linha(k) == IF ingPath = "xlsx" THEN LinhaXlsx(headerRow, k) ELSE LinhaDf(k)

\* (a loop that goes through the rows from the last to the first)
RowAt_LastFirst(n) == Len(sheet) + 1 - n
\* the data row the n-th pass of the loop takes: range(header_row_idx + 1,
\* ws.max_row + 1) and df.iterrows() go down the sheet
RowAt(n) == n

\* one pass of the row loop
IngestRow ==
    /\ ingPc = "rows"
    /\ headerRow > 0
    /\ ingPos < Len(sheet)
    /\ LET k == RowAt(ingPos + 1)
           row == sheet[k]
       IN  /\ ingPos' = k
           /\ IF SkipsBlank(ingPath) /\ IsBlankRow(row)
              THEN UNCHANGED <<created, errors, createdRows, storeFaults, store>>
              ELSE \E exc \in ExcPoints :
                     LET out == RowOutcome(row, exc)
                     IN  /\ IF out = "criada"
                            THEN /\ tarefas' = Append(tarefas, TarefaFromRow(row))
                                 /\ created' = created + 1
                                 /\ createdRows' = createdRows \cup {k}
                                 /\ UNCHANGED errors
                            ELSE /\ errors' = Append(errors,
                                        [linha |-> Linha(k), motivo |-> out, pos |-> k])
                                 /\ UNCHANGED <<tarefas, created, createdRows>>
                         /\ storeFaults' =
                                IF out = "excecao_store" THEN storeFaults \cup {k}
                                ELSE storeFaults
                         /\ UNCHANGED <<projetos, funcionarios>>
    /\ UNCHANGED <<ingPath, headerRow, sheet, ingPc, ingResult>>
    /\ UNCHANGED <<req, multi, call, crud>>

\* return {"criadas": created, "erros": errors}; a worksheet with no
\* header returns at once with one error
IngestReturn ==
    /\ ingPc = "rows"
    /\ IF headerRow = 0
       THEN ingResult' = [criadas |-> 0,
                          erros |-> << [linha |-> 0, motivo |-> "sem_cabecalho", pos |-> 0] >>]
       ELSE /\ ingPos = Len(sheet)
            /\ ingResult' = [criadas |-> created, erros |-> errors]
    /\ ingPc' = "returned"
    /\ UNCHANGED <<ingPath, headerRow, sheet, ingPos, created, errors,
                   createdRows, storeFaults, store>>
    /\ UNCHANGED <<req, multi, call, crud>>

NextIngest == IngestRow \/ IngestReturn


\* ------------------------------------------------------------------
\* Sentences (command_router.py). A sentence is the sequence of its
\* words; a line break and a comma are words of their own.
\* ------------------------------------------------------------------
NL == "\n"
UrlCsv == "https://x/a.csv"
UrlDoc == "https://docs.google.com/document/d/1"
Urls == {UrlCsv, UrlDoc}

Texts ==
    { <<"muda", "o", "prazo", "do", "projeto", "Alpha", "para", "amanhã">>,
      <<"muda", "o", "prazo", "do", "projeto", "alpha", "para", "xyz">>,
      <<"muda", "o", "prazo", "do", "projeto", "Ghost", "para", "amanhã">>,
      <<"muda", "o", "prazo", "da", "tarefa", "T1", "para", "amanhã">>,
      <<"adiciona", "a", "tarefa", "T2", "no", "projeto", "Alpha", ",",
        "bia", "vai", "ser", "a", "responsável">>,
      <<"adiciona", "a", "tarefa", "T2", "no", "projeto", "Ghost", ",",
        "bia", "vai", "ser", "a", "responsável">>,
      <<"adiciona", "a", "tarefa", "T2", "no", "projeto", "Alpha", ",",
        "ghost", "vai", "ser", "a", "responsável">>,
      <<"atribui", "a", "tarefa", "T1", "para", "bia">>,
      <<"muda", "a", "tarefa", "T1", "para", "ghost">>,
      <<"marca", "a", "tarefa", "T1", "como", "concluída">>,
      <<"marca", "a", "tarefa", "t1", "como", "concluida">>,
      <<"importa", "esta", "planilha", UrlCsv>>,
      <<"importa", "essa", "planilha", UrlCsv>>,
      <<"importa", "esta", "planilha">>,
      <<"importa", NL, "veja", UrlCsv>>,
      <<"insere", UrlDoc>>,
      <<"qual", "o", "prazo", "do", "projeto", "Alpha">>,
      <<"muda", "a", "porcentagem", "da", "tarefa", "T1", "para", "100">>,
      <<"muda", "o", "prazo", "do", "projeto", "atribui", "a", "tarefa",
        "T1", "para", "bia">>,
      <<"muda", "o", "prazo", "do", "projeto", "Alpha", "para", "importa", UrlCsv>>,
      <<"muda", "o", "prazo", "do", "projeto", "Alpha", "para", "muda", "o",
        "prazo", "da", "tarefa", "T1", "para", "amanhã">> }

Min(S) == CHOOSE x \in S : \A y \in S : x <= y

\* the words w stand in s from position i on
StartsAt(s, i, w) ==
    /\ i >= 1
    /\ i + Len(w) - 1 <= Len(s)
    /\ SubSeq(s, i, i + Len(w) - 1) = w

\* "." matches no line break and "$" the end of the text
OneLine(s, i, j) == \A k \in i..j : s[k] # NL

NoMatch == [ok |-> FALSE, g1 |-> << >>, g2 |-> << >>, g3 |-> << >>]

\* the second group (.+) takes any tail
AnyTail == {}

\* re.search of  PREFIX (.+?) SEP (TAIL)$ : the leftmost start, then the
\* shortest first group; tails lists the alternatives of TAIL (AnyTail: .+)
TwoGroups(s, prefixes, sep, tails) ==
    LET TailOk(g) == tails = AnyTail \/ g \in tails
        Seps(i, w) ==
            {j \in (i + Len(w) + 1)..(Len(s) - 1) :
                s[j] = sep /\ TailOk(SubSeq(s, j + 1, Len(s)))}
        Hits == {h \in (1..Len(s)) \X prefixes :
                    /\ StartsAt(s, h[1], h[2])
                    /\ OneLine(s, h[1], Len(s))
                    /\ Seps(h[1], h[2]) # {}}
    IN  IF Hits = {} THEN NoMatch
        ELSE LET i == Min({h[1] : h \in Hits})
                 w == CHOOSE x \in prefixes : <<i, x>> \in Hits
                 j == Min(Seps(i, w))
             IN  [ok |-> TRUE,
                  g1 |-> SubSeq(s, i + Len(w), j - 1),
                  g2 |-> SubSeq(s, j + 1, Len(s)),
                  g3 |-> << >>]

StatusPhrases ==
    { <<"concluída">>, <<"concluida">>, <<"em", "andamento">>, <<"congelada">>,
      <<"não", "iniciada">>, <<"nao", "iniciada">> }

\* muda[r]? o prazo do projeto (.+?) para (.+)$
MatchProjPrazo(s) ==
    TwoGroups(s, { <<"muda", "o", "prazo", "do", "projeto">>,
                   <<"mudar", "o", "prazo", "do", "projeto">> }, "para", AnyTail)

\* muda[r]? o prazo da tarefa (.+?) para (.+)$
MatchTarefaPrazo(s) ==
    TwoGroups(s, { <<"muda", "o", "prazo", "da", "tarefa">>,
                   <<"mudar", "o", "prazo", "da", "tarefa">> }, "para", AnyTail)

\* (atribui|muda) (?:a )?tarefa (.+?) para (.+)$
MatchResponsavel(s) ==
    TwoGroups(s, { <<"atribui", "a", "tarefa">>, <<"atribui", "tarefa">>,
                   <<"muda", "a", "tarefa">>, <<"muda", "tarefa">> }, "para", AnyTail)

\* marca[r]? a tarefa (.+?) como (concluída|...|nao iniciada)$
MatchStatus(s) ==
    TwoGroups(s, { <<"marca", "a", "tarefa">>, <<"marcar", "a", "tarefa">> },
              "como", StatusPhrases)

\* adiciona[r]? a tarefa (.+?) no projeto (.+?), (.+?) vai ser a responsável
MatchAddTarefa(s) ==
    LET prefixes == { <<"adiciona", "a", "tarefa">>, <<"adicionar", "a", "tarefa">> }
        fim == <<"vai", "ser", "a", "responsável">>
        Cs(b) == {c \in (b + 2)..Len(s) : StartsAt(s, c, fim)}
        Bs(a) == {b \in (a + 3)..Len(s) : s[b] = "," /\ Cs(b) # {}}
        As(i) == {a \in (i + 4)..Len(s) :
                    StartsAt(s, a, <<"no", "projeto">>) /\ Bs(a) # {}}
        Hits == {i \in 1..Len(s) :
                    /\ \E w \in prefixes : StartsAt(s, i, w)
                    /\ \E a \in As(i) : \E b \in Bs(a) : \E c \in Cs(b) :
                          OneLine(s, i, c + Len(fim) - 1)}
    IN  IF Hits = {} THEN NoMatch
        ELSE LET i == Min(Hits)
                 a == Min(As(i))
                 b == Min(Bs(a))
                 c == Min(Cs(b))
             IN  [ok |-> TRUE,
                  g1 |-> SubSeq(s, i + 3, a - 1),
                  g2 |-> SubSeq(s, a + 2, b - 1),
                  g3 |-> SubSeq(s, b + 1, c - 1)]

Verbs == {"insira", "insire", "inserir", "insere", "importa", "importar",
          "ingerir", "ingere"}
Dets == {"esse", "esta", "este"}
Nouns == {"projeto", "planilha", "tabela"}

NotNL(w) == w # NL

\* the position after VERB (esse|esta|este)? (projeto|planilha|tabela)?
AfterVerb(s, i) ==
    LET j1 == i + 1
        j2 == IF j1 <= Len(s) /\ s[j1] \in Dets THEN j1 + 1 ELSE j1
    IN  IF j2 <= Len(s) /\ s[j2] \in Nouns THEN j2 + 1 ELSE j2

\* the ingestion pattern: VERB ... (https?://\S+), line breaks being white
\* space; failing that VERB ... at the end of a line, and then the first
\* URL of the message; with no URL in the message the second match object
\* has no group 2 and m.group(2) raises IndexError
MatchIngest(s) ==
    LET flat == SelectSeq(s, NotNL)
        Direct == {i \in 1..Len(flat) :
                     /\ flat[i] \in Verbs
                     /\ AfterVerb(flat, i) <= Len(flat)
                     /\ flat[AfterVerb(flat, i)] \in Urls}
        AtEnd == {i \in 1..Len(s) :
                     /\ s[i] \in Verbs
                     /\ (AfterVerb(s, i) > Len(s) \/ s[AfterVerb(s, i)] = NL)}
        UrlAt == {i \in 1..Len(s) : s[i] \in Urls}
    IN  IF Direct # {}
        THEN [kind |-> "url", url |-> flat[AfterVerb(flat, Min(Direct))]]
        ELSE IF AtEnd = {} THEN [kind |-> "none", url |-> ""]
        ELSE IF UrlAt # {} THEN [kind |-> "url", url |-> s[Min(UrlAt)]]
        ELSE [kind |-> "raise", url |-> ""]

\* every pattern applied to every sentence
Parsed ==
    [t \in Texts |->
        [ingest |-> MatchIngest(t),
         proj_prazo |-> MatchProjPrazo(t),
         tarefa_prazo |-> MatchTarefaPrazo(t),
         add_tarefa |-> MatchAddTarefa(t),
         responsavel |-> MatchResponsavel(t),
         status |-> MatchStatus(t)]]

Matches(pat, t) ==
    IF pat = "ingest" THEN Parsed[t].ingest.kind # "none" ELSE Parsed[t][pat].ok

\* ------------------------------------------------------------------
\* Entity lookup of the command router
\* ------------------------------------------------------------------
Spelling ==
    [w \in {"Alpha", "alpha", "Ghost", "ghost", "T1", "t1", "T2",
            "Ana", "ana", "Bia", "bia", "Silva", "Souza"} |->
        CASE w = "Alpha" -> <<"A", "l", "p", "h", "a">>
          [] w = "alpha" -> <<"a", "l", "p", "h", "a">>
          [] w = "Ghost" -> <<"G", "h", "o", "s", "t">>
          [] w = "ghost" -> <<"g", "h", "o", "s", "t">>
          [] w = "T1" -> <<"T", "1">>
          [] w = "t1" -> <<"t", "1">>
          [] w = "T2" -> <<"T", "2">>
          [] w = "Ana" -> <<"A", "n", "a">>
          [] w = "ana" -> <<"a", "n", "a">>
          [] w = "Bia" -> <<"B", "i", "a">>
          [] w = "bia" -> <<"b", "i", "a">>
          [] w = "Silva" -> <<"S", "i", "l", "v", "a">>
          [] w = "Souza" -> <<"S", "o", "u", "z", "a">>]

\* the characters of a word; a word that is no name stands as one symbol
Spell(w) == IF w \in DOMAIN Spelling THEN Spelling[w] ELSE <<w>>

RECURSIVE Chars(_)
\* the characters of a phrase, its words joined by single spaces
Chars(g) ==
    IF g = << >> THEN << >>
    ELSE IF Len(g) = 1 THEN Spell(g[1])
    ELSE Spell(g[1]) \o <<" ">> \o Chars(Tail(g))

LowerChar(c) ==
    CASE c = "A" -> "a" [] c = "B" -> "b" [] c = "G" -> "g"
      [] c = "S" -> "s" [] c = "T" -> "t" [] OTHER -> c
Lower(cs) == [i \in 1..Len(cs) |-> LowerChar(cs[i])]

Contains(hay, needle) ==
    \E i \in 0..(Len(hay) - Len(needle)) :
        SubSeq(hay, i + 1, i + Len(needle)) = needle

\* field.regex(pattern, "i"): the pattern, plain text, found anywhere in
\* the field, letter case ignored
RegexI(pattern, field) == Contains(Lower(Chars(field)), Lower(Chars(pattern)))

First(S) == IF S = {} THEN 0 ELSE Min(S)

\* _find_project_by_name over a collection of projects
FindProject(P, g) == First({i \in 1..Len(P) : RegexI(g, P[i].nome)})
\* _find_task_by_name
FindTask(T, g) == First({i \in 1..Len(T) : RegexI(g, T[i].nome)})
\* (a lookup that tries the name before the e-mail)
FindUser_NameFirst(F, g) ==
    LET byNome == First({i \in 1..Len(F) : RegexI(g, F[i].nome)})
    IN  IF byNome # 0 THEN byNome
        ELSE First({i \in 1..Len(F) : g = <<F[i].email>>})
\* _find_user_by_name_or_email: e-mail, then first and last word on name
\* and surname, then the whole token on the name
FindUser(F, g) ==
    LET byEmail == First({i \in 1..Len(F) : g = <<F[i].email>>})
        byParts == IF Len(g) >= 2
                   THEN First({i \in 1..Len(F) :
                                 /\ RegexI(<<g[1]>>, F[i].nome)
                                 /\ RegexI(<<g[Len(g)]>>, F[i].sobrenome)})
                   ELSE 0
        byNome == First({i \in 1..Len(F) : RegexI(g, F[i].nome)})
    IN  IF byEmail # 0 THEN byEmail
        ELSE IF byParts # 0 THEN byParts
        ELSE byNome

\* _parse_relative_date: the date a phrase names, NoDate when dateparser
\* gives None
ParseDate(g) ==
    IF g = <<"amanhã">> THEN Hoje + 1
    ELSE IF g = <<"daqui", "dois", "dias">> THEN Hoje + 2
    ELSE NoDate

\* the status a phrase names, unaccented forms normalised
StatusOf(g) ==
    CASE g \in { <<"concluída">>, <<"concluida">> } -> "concluída"
      [] g = <<"em", "andamento">> -> "em andamento"
      [] g = <<"congelada">> -> "congelada"
      [] OTHER -> "não iniciada"

\* ------------------------------------------------------------------
\* What a link serves when it is fetched
\* ------------------------------------------------------------------
\* rows of a sheet behind a link
MaxLinkRows == 2
\* links inside one document, documents in one request
MaxLinks == 2

LinkRowVals == {ValidRow, [ValidRow EXCEPT !.proj = "Ghost"]}
LinkSheets == UNION {[1..n -> LinkRowVals] : n \in 0..MaxLinkRows}

\* a fetch that failed (time-out, non-success status)
FetchFail == [ok |-> FALSE, rows |-> << >>, links |-> << >>]
SheetFetches == {FetchFail} \cup {[ok |-> TRUE, rows |-> d, links |-> << >>] : d \in LinkSheets}
\* a document and what each of its links serves
LinkFetches == {FetchFail, [ok |-> TRUE, rows |-> <<ValidRow>>, links |-> << >>]}
DocFetches ==
    {FetchFail} \cup
    {[ok |-> TRUE, rows |-> << >>, links |-> l] :
        l \in UNION {[1..n -> LinkFetches] : n \in 0..MaxLinks}}

\* ------------------------------------------------------------------
\* Ingestion of fetched sheets
\* ------------------------------------------------------------------
RECURSIVE DfLoop(_, _, _)
\* the loop of _ingest_tasks_df_from_dataframe over a whole DataFrame
DfLoop(rows, k, acc) ==
    IF k > Len(rows) THEN acc
    ELSE LET out == RowOutcome(rows[k], "none")
         IN  DfLoop(rows, k + 1,
                 IF out = "criada"
                 THEN [acc EXCEPT !.criadas = @ + 1,
                                  !.novas = Append(@, TarefaFromRow(rows[k]))]
                 ELSE [acc EXCEPT !.erros =
                         Append(@, [linha |-> LinhaDf(k), motivo |-> out, pos |-> k])])

IngestDataframe(rows) == DfLoop(rows, 1, [criadas |-> 0, erros |-> << >>, novas |-> << >>])

\* ingest_from_sheet_or_csv_url: the sheet behind the link is read and its
\* rows ingested; the result is {criados, erros}. A failed fetch raises.
ingest_from_sheet_or_csv_url(f) ==
    IF ~f.ok THEN [raised |-> TRUE, criados |-> 0, erros |-> << >>, novas |-> << >>]
    ELSE LET r == IngestDataframe(f.rows)
         IN  [raised |-> FALSE, criados |-> r.criadas, erros |-> r.erros, novas |-> r.novas]

\* one item of ingest_from_doc_link: {link, resultado}; a link that cannot
\* be fetched gets a result holding its error
LinkItem(f) ==
    IF ~f.ok
    THEN [ok |-> FALSE, criados |-> 0, novas |-> << >>,
          erros |-> << [linha |-> 0, motivo |-> "falha_ao_baixar", pos |-> 0] >>]
    ELSE LET r == IngestDataframe(f.rows)
         IN  [ok |-> TRUE, criados |-> r.criadas, erros |-> r.erros, novas |-> r.novas]

RECURSIVE SumCriados(_)
SumCriados(itens) ==
    IF itens = << >> THEN 0 ELSE Head(itens).criados + SumCriados(Tail(itens))
RECURSIVE SumErros(_)
SumErros(itens) ==
    IF itens = << >> THEN 0 ELSE Len(Head(itens).erros) + SumErros(Tail(itens))
RECURSIVE AllNovas(_)
AllNovas(itens) ==
    IF itens = << >> THEN << >> ELSE Head(itens).novas \o AllNovas(Tail(itens))

\* ingest_from_doc_link: every link of the document, in order, one item
\* each: {links_processados, itens}. A document that cannot be fetched raises.
ingest_from_doc_link(f) ==
    IF ~f.ok THEN [raised |-> TRUE, itens |-> << >>]
    ELSE [raised |-> FALSE, itens |-> [i \in 1..Len(f.links) |-> LinkItem(f.links[i])]]

\* ------------------------------------------------------------------
\* handle_command
\* ------------------------------------------------------------------
\* where the store may raise while a command runs
CmdExc == {"none", "find", "save"}

\* the outcome of handle_command: ret is "none" (no command), "ok"
\* (executado True), "fail" (executado False) or "raise" (an exception
\* leaves the function); P and T are the projects and tasks afterwards
Outcome(ret, msg, P, T) ==
    [ret |-> ret, msg |-> msg, P |-> P, T |-> T, tried |-> << >>, ran |-> << >>,
     criados |-> 0, erros |-> 0, writes |-> 0, linhas |-> 0]

IsDocUrl(url) == url = UrlDoc

\* (a summary that counts the rows read as created)
HandleIngest_CountsRows(t, f, P, T) ==
    LET m == Parsed[t].ingest
    IN  IF m.kind = "raise" THEN Outcome("raise", "IndexError", P, T)
        ELSE IF IsDocUrl(m.url)
        THEN LET res == ingest_from_doc_link(f)
             IN  IF res.raised THEN Outcome("fail", "falha_ao_ingerir", P, T)
                 ELSE [Outcome("ok", "ingestao_documento", P, T \o AllNovas(res.itens))
                         EXCEPT !.criados = SumCriados(res.itens),
                                !.erros = SumErros(res.itens),
                                !.writes = Len(AllNovas(res.itens))]
        ELSE LET res == ingest_from_sheet_or_csv_url(f)
             IN  IF res.raised THEN Outcome("fail", "falha_ao_ingerir", P, T)
                 ELSE [Outcome("ok", "ingestao", P, T \o res.novas)
                         EXCEPT !.criados = Len(f.rows),
                                !.erros = Len(res.erros),
                                !.writes = Len(res.novas),
                                !.linhas = Len(f.rows)]
\* 0) ingestion by link
HandleIngest(t, f, P, T) ==
    LET m == Parsed[t].ingest
    IN  IF m.kind = "raise" THEN Outcome("raise", "IndexError", P, T)
        ELSE IF IsDocUrl(m.url)
        THEN LET res == ingest_from_doc_link(f)
             IN  IF res.raised THEN Outcome("fail", "falha_ao_ingerir", P, T)
                 ELSE [Outcome("ok", "ingestao_documento", P, T \o AllNovas(res.itens))
                         EXCEPT !.criados = SumCriados(res.itens),
                                !.erros = SumErros(res.itens),
                                !.writes = Len(AllNovas(res.itens))]
        ELSE LET res == ingest_from_sheet_or_csv_url(f)
             IN  IF res.raised THEN Outcome("fail", "falha_ao_ingerir", P, T)
                 ELSE [Outcome("ok", "ingestao", P, T \o res.novas)
                         EXCEPT !.criados = res.criados,
                                !.erros = Len(res.erros),
                                !.writes = Len(res.novas),
                                !.linhas = Len(f.rows)]

\* (a handler that saves the date it parsed, understood or not, and then
\* reports)
HandleProjPrazo_SaveThenReport(t, exc, P, T) ==
    LET m == Parsed[t].proj_prazo
        i == FindProject(P, m.g1)
        d == ParseDate(m.g2)
    IN  IF exc = "find" THEN Outcome("raise", "store", P, T)
        ELSE IF i = 0 THEN Outcome("fail", "projeto_nao_encontrado", P, T)
        ELSE IF exc = "save" THEN Outcome("raise", "store", P, T)
        ELSE IF d = NoDate
        THEN [Outcome("fail", "data_nao_entendida", [P EXCEPT ![i].prazo = d], T)
                EXCEPT !.writes = 1]
        ELSE [Outcome("ok", "prazo_projeto", [P EXCEPT ![i].prazo = d], T)
                EXCEPT !.writes = 1]
\* 1) project deadline
HandleProjPrazo(t, exc, P, T) ==
    LET m == Parsed[t].proj_prazo
        i == FindProject(P, m.g1)
        d == ParseDate(m.g2)
    IN  IF exc = "find" THEN Outcome("raise", "store", P, T)
        ELSE IF i = 0 THEN Outcome("fail", "projeto_nao_encontrado", P, T)
        ELSE IF d = NoDate THEN Outcome("fail", "data_nao_entendida", P, T)
        ELSE IF exc = "save" THEN Outcome("raise", "store", P, T)
        ELSE [Outcome("ok", "prazo_projeto", [P EXCEPT ![i].prazo = d], T)
                EXCEPT !.writes = 1]

\* 2) task deadline
HandleTarefaPrazo(t, exc, P, T) ==
    LET m == Parsed[t].tarefa_prazo
        i == FindTask(T, m.g1)
        d == ParseDate(m.g2)
    IN  IF exc = "find" THEN Outcome("raise", "store", P, T)
        ELSE IF i = 0 THEN Outcome("fail", "tarefa_nao_encontrada", P, T)
        ELSE IF d = NoDate THEN Outcome("fail", "data_nao_entendida", P, T)
        ELSE IF exc = "save" THEN Outcome("raise", "store", P, T)
        ELSE [Outcome("ok", "prazo_tarefa", P, [T EXCEPT ![i].prazo = d])
                EXCEPT !.writes = 1]

\* (a handler that gives the task to the first employee when the one named
\* is not found)
HandleAddTarefa_DefaultAssignee(t, exc, P, F, T) ==
    LET m == Parsed[t].add_tarefa
        i == FindProject(P, m.g2)
        u == IF FindUser(F, m.g3) = 0 THEN 1 ELSE FindUser(F, m.g3)
        novo == [nome |-> m.g1, projeto |-> P[i].nome, responsavel |-> F[u].email,
                 prazo |-> Hoje + 7, status |-> "não iniciada",
                 dataConclusao |-> NoDate]
    IN  IF exc = "find" THEN Outcome("raise", "store", P, T)
        ELSE IF i = 0 THEN Outcome("fail", "projeto_nao_encontrado", P, T)
        ELSE IF exc = "save" THEN Outcome("raise", "store", P, T)
        ELSE [Outcome("ok", "tarefa_criada", P, Append(T, novo)) EXCEPT !.writes = 1]
\* 3) add a task to a project
HandleAddTarefa(t, exc, P, F, T) ==
    LET m == Parsed[t].add_tarefa
        i == FindProject(P, m.g2)
        u == FindUser(F, m.g3)
        novo == [nome |-> m.g1, projeto |-> P[i].nome, responsavel |-> F[u].email,
                 prazo |-> Hoje + 7, status |-> "não iniciada",
                 dataConclusao |-> NoDate]
    IN  IF exc = "find" THEN Outcome("raise", "store", P, T)
        ELSE IF i = 0 THEN Outcome("fail", "projeto_nao_encontrado", P, T)
        ELSE IF u = 0 THEN Outcome("fail", "responsavel_nao_encontrado", P, T)
        ELSE IF exc = "save" THEN Outcome("raise", "store", P, T)
        ELSE [Outcome("ok", "tarefa_criada", P, Append(T, novo)) EXCEPT !.writes = 1]

\* 4) change the assignee of a task
HandleResponsavel(t, exc, P, F, T) ==
    LET m == Parsed[t].responsavel
        i == FindTask(T, m.g1)
        u == FindUser(F, m.g2)
    IN  IF exc = "find" THEN Outcome("raise", "store", P, T)
        ELSE IF i = 0 THEN Outcome("fail", "tarefa_nao_encontrada", P, T)
        ELSE IF u = 0 THEN Outcome("fail", "responsavel_nao_encontrado", P, T)
        ELSE IF exc = "save" THEN Outcome("raise", "store", P, T)
        ELSE [Outcome("ok", "responsavel", P, [T EXCEPT ![i].responsavel = F[u].email])
                EXCEPT !.writes = 1]

\* 5) change the status of a task
HandleStatus(t, exc, P, T) ==
    LET m == Parsed[t].status
        i == FindTask(T, m.g1)
    IN  IF exc = "find" THEN Outcome("raise", "store", P, T)
        ELSE IF i = 0 THEN Outcome("fail", "tarefa_nao_encontrada", P, T)
        ELSE IF exc = "save" THEN Outcome("raise", "store", P, T)
        ELSE [Outcome("ok", "status", P, [T EXCEPT ![i].status = StatusOf(m.g2)])
                EXCEPT !.writes = 1]

Handler(pat, t, exc, f, P, F, T) ==
    CASE pat = "ingest" -> HandleIngest(t, f, P, T)
      [] pat = "proj_prazo" -> HandleProjPrazo(t, exc, P, T)
      [] pat = "tarefa_prazo" -> HandleTarefaPrazo(t, exc, P, T)
      [] pat = "add_tarefa" -> HandleAddTarefa(t, exc, P, F, T)
      [] pat = "responsavel" -> HandleResponsavel(t, exc, P, F, T)
      [] pat = "status" -> HandleStatus(t, exc, P, T)

\* (an order that tries the assignee pattern before the deadline patterns)
PatternOrder_AssigneeFirst ==
    <<"ingest", "responsavel", "proj_prazo", "tarefa_prazo", "add_tarefa", "status">>
\* the order in which handle_command tries its patterns
PatternOrder ==
    <<"ingest", "proj_prazo", "tarefa_prazo", "add_tarefa", "responsavel", "status">>

RECURSIVE Dispatch(_, _, _, _, _, _, _, _)
\* the chain of "m = re.search(...); if m: ... return": the first pattern
\* that matches runs its handler and returns
Dispatch(k, tried, t, exc, f, P, F, T) ==
    IF k > Len(PatternOrder) THEN [Outcome("none", "", P, T) EXCEPT !.tried = tried]
    ELSE LET pat == PatternOrder[k]
         IN  IF Matches(pat, t)
             THEN [Handler(pat, t, exc, f, P, F, T)
                     EXCEPT !.tried = Append(tried, pat), !.ran = <<pat>>]
             ELSE Dispatch(k + 1, Append(tried, pat), t, exc, f, P, F, T)

handle_command(t, exc, f, P, F, T) == Dispatch(1, << >>, t, exc, f, P, F, T)

\* ------------------------------------------------------------------
\* The callers of handle_command: POST /ai/chat and POST /webhook
\* ------------------------------------------------------------------
\* tasks the store may hold
MaxTarefas == 2

NoReq ==
    [caller |-> "-", texto |-> << >>, ret |-> "-", tried |-> << >>, ran |-> << >>,
     msg |-> "", resp |-> "-", executado |-> FALSE, ia |-> FALSE,
     criados |-> 0, erros |-> 0, writes |-> 0, linhas |-> 0, token |-> "-"]

\* where the store may raise for a sentence: the commands that go to the
\* store themselves; the ingestion catches per row and per link
ExcFor(t) ==
    IF Parsed[t].ingest.kind = "none" /\ \E pat \in DOMAIN Parsed[t] \ {"ingest"} : Parsed[t][pat].ok
    THEN CmdExc ELSE {"none"}

\* what the link of a sentence serves, where the sentence has one
FetchesFor(t) ==
    IF Parsed[t].ingest.kind # "url" THEN {FetchFail}
    ELSE IF IsDocUrl(Parsed[t].ingest.url) THEN DocFetches ELSE SheetFetches

ReqOf(caller, t, r, resp, executado, ia) ==
    [caller |-> caller, texto |-> t, ret |-> r.ret, tried |-> r.tried, ran |-> r.ran,
     msg |-> r.msg, resp |-> resp, executado |-> executado, ia |-> ia,
     criados |-> r.criados, erros |-> r.erros, writes |-> r.writes,
     linhas |-> r.linhas, token |-> "-"]

\* processar_chat_ia: the command first; an exception of handle_command
\* becomes {executado: False}; the assistant only when there is no command
ChatRequest ==
    /\ Len(tarefas) < MaxTarefas
    /\ \E t \in Texts : \E exc \in ExcFor(t), f \in FetchesFor(t) :
         \E r \in {handle_command(t, exc, f, projetos, funcionarios, tarefas)} :
         LET ia == r.ret = "none"
         IN  \E iaFails \in (IF ia THEN BOOLEAN ELSE {FALSE}) :
               /\ projetos' = r.P
               /\ tarefas' = r.T
               /\ req' = ReqOf("chat", t, r,
                               IF ia THEN (IF iaFails THEN "ERRO" ELSE "TEXTO")
                               ELSE IF r.ret = "ok" THEN "ACOES" ELSE "ACOES_FALHOU",
                               r.ret = "ok", ia)
    /\ UNCHANGED <<funcionarios, ingVars, multi, call, crud>>

\* the token of the session: none, one that jwt.decode rejects, one whose
\* "sub" is no stored employee, one of a stored employee
WebhookTokens == {"ausente", "invalido", "sem_usuario", "valido"}

\* (a session that any token opens)
SessionOk_AnyToken(token) == token # "ausente"
\* usuario_logado is set
SessionOk(token) == token = "valido"

\* dialogflow_webhook: the session, then the command, then the assistant
\* in either branch; nothing is caught
WebhookRequest ==
    /\ Len(tarefas) < MaxTarefas
    /\ \E t \in Texts, token \in WebhookTokens :
         IF ~SessionOk(token)
         THEN /\ req' = [NoReq EXCEPT !.caller = "webhook", !.texto = t,
                                      !.resp = "sessao_invalida", !.token = token]
              /\ UNCHANGED <<projetos, tarefas>>
         ELSE \E exc \in ExcFor(t), f \in FetchesFor(t) :
                \E r \in {handle_command(t, exc, f, projetos, funcionarios, tarefas)} :
                LET ia == r.ret # "raise"
                IN  \E iaFails \in (IF ia THEN BOOLEAN ELSE {FALSE}) :
                      /\ projetos' = r.P
                      /\ tarefas' = r.T
                      /\ req' = [ReqOf("webhook", t, r,
                                       IF r.ret = "raise" \/ iaFails THEN "raised"
                                       ELSE "fulfillment",
                                       r.ret = "ok", ia) EXCEPT !.token = token]
    /\ UNCHANGED <<funcionarios, ingVars, multi, call, crud>>

NextCmd == ChatRequest \/ WebhookRequest

\* ------------------------------------------------------------------
\* Several documents in one request: POST /ingest/links hands its urls to
\* ingest_from_doc_links. The documents are fetched independently, their
\* fetches completing in any order; each document gets one entry
\* {doc_url, ok, resultado | erro} in the result.
\* ------------------------------------------------------------------
\* a document whose fetch has not completed
PendingSource == [st |-> "pending", f |-> FetchFail, ok |-> FALSE, itens |-> << >>, erro |-> ""]

\* the entry of one document: its error when it could not be fetched,
\* otherwise the items of ingest_from_doc_link
SourceEntry(f) ==
    LET res == ingest_from_doc_link(f)
    IN  IF res.raised
        THEN [st |-> "done", f |-> f, ok |-> FALSE, itens |-> << >>, erro |-> "falha_ao_baixar"]
        ELSE [st |-> "done", f |-> f, ok |-> TRUE, itens |-> res.itens, erro |-> ""]

\* (a batch that stops collecting at the first document that failed)
Resultados_StopAtFailure(srcs) ==
    LET bad == {i \in 1..Len(srcs) : ~srcs[i].ok}
        n == IF bad = {} THEN Len(srcs) ELSE Min(bad)
    IN  [i \in 1..n |-> [doc |-> i, ok |-> srcs[i].ok, itens |-> srcs[i].itens,
                         erro |-> srcs[i].erro]]
\* the entries of the result, one per document, in the order of the urls
Resultados(srcs) ==
    [i \in 1..Len(srcs) |-> [doc |-> i, ok |-> srcs[i].ok, itens |-> srcs[i].itens,
                             erro |-> srcs[i].erro]]

NoMulti == [pc |-> "idle", srcs |-> << >>, documentos_processados |-> 0, resultados |-> << >>]

\* the fetch of one document completes, with what it serves or with a failure
FetchSource ==
    /\ multi.pc = "running"
    /\ \E i \in 1..Len(multi.srcs), f \in DocFetches :
         /\ multi.srcs[i].st = "pending"
         /\ multi' = [multi EXCEPT !.srcs[i].st = "fetched", !.srcs[i].f = f]
    /\ UNCHANGED <<store, ingVars, req, call, crud>>

\* a fetched document is ingested: every link of it, one item each
IngestSource ==
    /\ multi.pc = "running"
    /\ \E i \in 1..Len(multi.srcs) :
         /\ multi.srcs[i].st = "fetched"
         /\ \E e \in {SourceEntry(multi.srcs[i].f)} :
              /\ multi' = [multi EXCEPT !.srcs[i] = e]
              /\ tarefas' = tarefas \o AllNovas(e.itens)
    /\ UNCHANGED <<projetos, funcionarios, ingVars, req, call, crud>>

\* every document has its entry: the result is returned
MultiReturn ==
    /\ multi.pc = "running"
    /\ \A i \in 1..Len(multi.srcs) : multi.srcs[i].st = "done"
    /\ multi' = [multi EXCEPT !.pc = "returned",
                              !.documentos_processados = Len(multi.srcs),
                              !.resultados = Resultados(multi.srcs)]
    /\ UNCHANGED <<store, ingVars, req, call, crud>>

NextMulti == FetchSource \/ IngestSource \/ MultiReturn

\* ------------------------------------------------------------------
\* Calls of the helpers: one call in a run
\* ------------------------------------------------------------------
NoCall == [fn |-> "-"]

\* no helper called yet
IdleCall == call = NoCall

\* ------------------------------------------------------------------
\* ingest_from_url (ingest.py)
\* ------------------------------------------------------------------
\* what the end of a url says it is
UrlKinds == {"csv", "xlsx", "sheets", "docx", "html"}
TabularKinds == {"csv", "xlsx", "sheets"}
\* what requests.get does: it raises (time-out, no connection), or it
\* answers with a non-success status and an error page, or with the content
GetOutcomes == {"timeout", "status", "ok"}

\* the DataFrame pandas makes of an error page it manages to parse as CSV:
\* one line under a header, none of the known columns
ErrorPageRows == <<BlankRow>>

\* _read_tabular_from_url: one GET with no raise_for_status; whatever goes
\* wrong gives None. parses: the error page goes through pd.read_csv
\* (pd.read_excel never takes it)
ReadTabularFromUrl(kind, g, parses, rows) ==
    IF kind \notin TabularKinds THEN [gets |-> 0, df |-> FALSE, rows |-> << >>]
    ELSE IF g = "timeout" THEN [gets |-> 1, df |-> FALSE, rows |-> << >>]
    ELSE IF g = "status"
    THEN IF kind # "xlsx" /\ parses
         THEN [gets |-> 1, df |-> TRUE, rows |-> ErrorPageRows]
         ELSE [gets |-> 1, df |-> FALSE, rows |-> << >>]
    ELSE [gets |-> 1, df |-> TRUE, rows |-> rows]

\* _fetch_bytes and _fetch_url_text: raise_for_status, and any exception
\* gives None / ""
FetchOk(g) == g = "ok"

\* ingest_from_url: g1 and g2 are what the first and the second GET of the
\* url meet. The result: tipo, whether it carries "erro", the GETs made
ingest_from_url(kind, g1, g2, parses, rows) ==
    LET t == ReadTabularFromUrl(kind, g1, parses, rows)
        g == IF t.gets = 0 THEN g1 ELSE g2
        base == [tipo |-> "tarefas", erro |-> FALSE, gets |-> t.gets, criadas |-> 0,
                 erros |-> 0, extract |-> "", novas |-> << >>]
    IN  IF t.df
        THEN LET r == IngestDataframe(t.rows)
             IN  [base EXCEPT !.criadas = r.criadas, !.erros = Len(r.erros),
                              !.novas = r.novas]
        ELSE IF kind = "docx"
        THEN IF ~FetchOk(g)
             THEN [base EXCEPT !.tipo = "docx", !.erro = TRUE, !.gets = @ + 1]
             ELSE [base EXCEPT !.tipo = "docx", !.gets = @ + 1, !.extract = "texto"]
        ELSE [base EXCEPT !.tipo = "html", !.gets = @ + 1,
                          !.extract = IF FetchOk(g) THEN "texto" ELSE ""]

CallIngestFromUrl ==
    /\ IdleCall
    /\ \E kind \in UrlKinds, g1 \in GetOutcomes, g2 \in GetOutcomes,
          parses \in BOOLEAN, rows \in LinkSheets :
         \E r \in {ingest_from_url(kind, g1, g2, parses, rows)} :
            /\ call' = [fn |-> "ingest_from_url", kind |-> kind, g1 |-> g1, g2 |-> g2,
                        rows |-> rows, out |-> [r EXCEPT !.novas = Len(@)]]
            /\ tarefas' = tarefas \o r.novas
    /\ UNCHANGED <<projetos, funcionarios, ingVars, req, multi, crud>>

\* ------------------------------------------------------------------
\* Lookups of the command router, called on their own
\* ------------------------------------------------------------------
\* collections of employees: the store's, one where a name holds the
\* e-mail of somebody else, one where a name holds two words
StaffSets ==
    { InitFuncionarios,
      << [nome |-> <<"ana@ache.com">>, sobrenome |-> <<"Silva">>, email |-> "old@ache.com"],
         [nome |-> <<"Ana">>, sobrenome |-> <<"Souza">>, email |-> "ana@ache.com"] >>,
      << [nome |-> <<"Ana", "Souza">>, sobrenome |-> <<"Silva">>, email |-> "as@ache.com"],
         [nome |-> <<"Ana">>, sobrenome |-> <<"Souza">>, email |-> "ana@ache.com"] >> }

UserTokens ==
    { <<"ana@ache.com">>, <<"bia@ache.com">>, <<"ana">>, <<"bia">>, <<"a">>,
      <<"Ana", "Silva">>, <<"bia", "souza">>, <<"Ana", "Souza">>, <<"ghost">> }

CallFindUser ==
    /\ IdleCall
    /\ \E F \in StaffSets, g \in UserTokens :
         call' = [fn |-> "find_user", F |-> F, token |-> g, out |-> FindUser(F, g)]
    /\ UNCHANGED <<store, ingVars, req, multi, crud>>

\* project names as a command or a row may write them
ProjectNames == {"Alpha", "alpha", "Ghost", "ghost"}

\* the two lookups of a project by name: _find_project_by_name of the
\* command router and the find_one of the row loops, and what a row that is
\* valid but for this project name comes to
CallFindProject ==
    /\ IdleCall
    /\ \E nome \in ProjectNames :
         call' = [fn |-> "find_project", nome |-> nome,
                  cmd |-> FindProject(projetos, <<nome>>),
                  row |-> ProjetoByNome(Strip(nome)),
                  rowOut |-> RowOutcome([ValidRow EXCEPT !.proj = nome], "none")]
    /\ UNCHANGED <<store, ingVars, req, multi, crud>>

\* ------------------------------------------------------------------
\* A dataset by its columns (_ingest_tasks_df_from_dataframe)
\* ------------------------------------------------------------------
TaskCols == {"Nome do Projeto", "Email Responsável", "Nome da Tarefa", "Data de Fim"}
ProjectCols == {"Nome do Projeto", "Situação", "Prazo"}
PersonCols == {"Nome", "Sobrenome", "Email"}
ForeignCols == {"Código", "Valor"}
ColumnSets == {TaskCols, ProjectCols, PersonCols, ForeignCols, TaskCols \cup PersonCols}

\* get(row, *names): the cell of the first of the names that is a column
\* of the dataset, None when none is
GetCol(cols, names, val) == IF cols \cap names # {} THEN val ELSE NoVal

\* a row of a dataset with these columns, every cell filled, as the task
\* loop reads it
RowSeen(cols) ==
    [proj |-> GetCol(cols, {"Nome do Projeto", "Projeto"}, "Alpha"),
     email |-> GetCol(cols, {"Email Responsável", "Responsável", "Email"}, "ana@ache.com"),
     nome |-> GetCol(cols, {"Nome da Tarefa", "Tarefa", "Nome"}, "T2"),
     fim |-> IF "Data de Fim" \in cols THEN 15 ELSE NoDate,
     prazo |-> IF "Prazo" \in cols THEN 20 ELSE NoDate,
     inicio |-> NoDate, exp |-> NoDias]

\* a dataset of n rows with these columns goes through the task loop, as it
\* does from ingest_from_url: nothing looks at the columns first
CallIngestColumns ==
    /\ IdleCall
    /\ \E cols \in ColumnSets, n \in 1..MaxLinkRows :
         \E r \in {IngestDataframe([k \in 1..n |-> RowSeen(cols)])} :
            /\ call' = [fn |-> "ingest_columns", cols |-> cols, n |-> n,
                        criadas |-> r.criadas, erros |-> r.erros]
            /\ tarefas' = tarefas \o r.novas
    /\ UNCHANGED <<projetos, funcionarios, ingVars, req, multi, crud>>

\* ------------------------------------------------------------------
\* The url of a Google sheet (_read_tabular_from_url). A url is the
\* sequence of its parts.
\* ------------------------------------------------------------------
SheetBase == "https://docs.google.com/spreadsheets/d/1"
ExportSuffix == "/export?format=csv"
SheetUrls ==
    { <<SheetBase>>,
      <<SheetBase, "/edit">>,
      <<SheetBase, "/edit", "?usp=sharing">>,
      <<SheetBase, "/edit", "#gid=7">>,
      <<SheetBase, "/edit", "?gid=7">>,
      <<SheetBase, "/edit", "?gid=7", "#gid=7">>,
      <<SheetBase, ExportSuffix>>,
      <<SheetBase, ExportSuffix, "&gid=7">> }

HasPart(u, part) == \E i \in 1..Len(u) : u[i] = part

\* u.split("/edit")[0]: what stands before the first "/edit"
BeforeEdit(u) ==
    SubSeq(u, 1, Min({i \in 1..Len(u) : u[i] = "/edit"}) - 1)

\* the url that is fetched for a docs.google.com/spreadsheets url
SheetFetchUrl(u) ==
    IF HasPart(u, ExportSuffix) THEN u
    ELSE IF HasPart(u, "/edit") THEN BeforeEdit(u) \o <<ExportSuffix>>
    ELSE u

CallSheetFetchUrl ==
    /\ IdleCall
    /\ \E u \in SheetUrls :
         call' = [fn |-> "sheet_url", url |-> u, out |-> SheetFetchUrl(u)]
    /\ UNCHANGED <<store, ingVars, req, multi, crud>>

\* ------------------------------------------------------------------
\* The text of a PDF (_fetch_bytes, _extract_pdf_text_from_bytes,
\* _extract_pdf_text_from_url). A text is the sequence of its characters.
\* ------------------------------------------------------------------
\* longest text an extractor returns
MaxTextLen == 3
\* most pages PdfReader finds
MaxPages == 2

PdfChars == {" ", "a"}
WhiteSpace == {" ", "\n"}
PdfTexts == UNION {[1..n -> PdfChars] : n \in 0..MaxTextLen}
\* an extractor that raises, and an extractor that returns None
Raises == <<"<raise>">>
NoText == <<NoVal>>

Max(S) == CHOOSE x \in S : \A y \in S : x >= y

\* str.strip()
StripText(t) ==
    LET ink == {i \in 1..Len(t) : t[i] \notin WhiteSpace}
    IN  IF ink = {} THEN << >> ELSE SubSeq(t, Min(ink), Max(ink))

\* what pdfminer's extract_text does with the bytes
PrimaryOutcomes == {Raises} \cup PdfTexts
\* what page.extract_text() does with one page
PageOutcomes == {Raises, NoText, << >>, <<" ">>, <<"a">>, <<" ", "a">>}
\* what PyPDF2 does with the bytes: PdfReader raises, or finds pages
SecondaryOutcomes ==
    {[raises |-> TRUE, pages |-> << >>]} \cup
    {[raises |-> FALSE, pages |-> ps] :
        ps \in UNION {[1..n -> PageOutcomes] : n \in 0..MaxPages}}

\* parts.append(page.extract_text() or ""), "" when the page raises
PageText(pg) == IF pg = Raises \/ pg = NoText THEN << >> ELSE pg

\* "\n".join(parts)
RECURSIVE JoinPages(_)
JoinPages(parts) ==
    IF Len(parts) = 0 THEN << >>
    ELSE IF Len(parts) = 1 THEN parts[1]
    ELSE parts[1] \o <<"\n">> \o JoinPages(Tail(parts))

\* pdfminer first; PyPDF2 when it raised or gave no text
ExtractPdfTextFromBytes(p, s) ==
    IF p # Raises /\ p # << >> /\ StripText(p) # << >>
    THEN [out |-> StripText(p), secondary |-> FALSE]
    ELSE IF s.raises THEN [out |-> << >>, secondary |-> TRUE]
    ELSE [out |-> StripText(JoinPages([i \in 1..Len(s.pages) |-> PageText(s.pages[i])])),
          secondary |-> TRUE]

\* requests.get + raise_for_status: "fail" is None, "empty" is b""
FetchBytesOutcomes == {"fail", "empty", "bytes"}

ExtractPdfTextFromUrl(f, p, s) ==
    IF f # "bytes" THEN [out |-> << >>, secondary |-> FALSE]
    ELSE ExtractPdfTextFromBytes(p, s)

CallExtractPdfTextFromUrl ==
    /\ IdleCall
    /\ \E f \in FetchBytesOutcomes, p \in PrimaryOutcomes, s \in SecondaryOutcomes :
         \E r \in {ExtractPdfTextFromUrl(f, p, s)} :
            call' = [fn |-> "extract_pdf", fetch |-> f, primary |-> p,
                     second |-> s, out |-> r.out, secondary |-> r.secondary,
                     raised |-> FALSE]
    /\ UNCHANGED <<store, ingVars, req, multi, crud>>

\* ------------------------------------------------------------------
\* "Como fazer?" and "Documento de Referência" of a worksheet row
\* (ingest_xlsx)
\* ------------------------------------------------------------------
\* the cell has no hyperlink
NoHyperlink == "<no hyperlink>"
\* the hyperlink of the cell: none, one with no target (a link to a place
\* in the workbook), one with a target
DocLinks == {NoHyperlink, NoVal, "https://x/l.pdf", "https://x/l.docx"}
\* the value of the cell
DocValues == {NoVal, Ws, "Manual", "https://x/v.PDF"}
\* str(documento_referencia).lower().endswith(".pdf")
EndsWithPdf(v) == v \in {"https://x/l.pdf", "https://x/v.PDF"}
\* the "Como fazer?" cell: None, or a string
ComoFazerCells == {NoText, << >>, <<" ">>, <<"a">>}

DocRefValue(v) == Strip(v)
DocRefLink(lk) == IF lk = NoHyperlink THEN NoVal ELSE lk
\* (the value of the cell before its hyperlink)
DocumentoReferencia_ValueFirst(v, lk) ==
    IF Truthy(DocRefValue(v)) THEN DocRefValue(v) ELSE DocRefLink(lk)
\* doc_ref_link or doc_ref_value
DocumentoReferencia(v, lk) ==
    IF Truthy(DocRefLink(lk)) THEN DocRefLink(lk) ELSE DocRefValue(v)

\* cell.value.strip() of the "Como fazer?" cell, None when there is none
ComoFazerCell(c) == IF c = NoText THEN NoText ELSE StripText(c)
\* como_fazer and como_fazer.strip()
HasComoFazer(c) == c # NoText /\ StripText(c) # << >>

\* the PDF of the reference is read for the how-to
UsesPdf(c, usar, ref) ==
    ~HasComoFazer(ComoFazerCell(c)) /\ usar /\ Truthy(ref) /\ EndsWithPdf(ref)

\* the extractions a row is tried with
RowFetches == {"fail", "bytes"}
RowPrimaries == {Raises, <<" ">>, <<" ", "a">>}
RowSecondaries ==
    {[raises |-> TRUE, pages |-> << >>],
     [raises |-> FALSE, pages |-> << << >> >>],
     [raises |-> FALSE, pages |-> << <<"a">> >>]}

\* the row is ValidRow in every other column
CallXlsxDocRow ==
    /\ IdleCall
    /\ \E c \in ComoFazerCells, v \in DocValues, lk \in DocLinks, usar \in BOOLEAN,
          f \in RowFetches, p \in RowPrimaries, s \in RowSecondaries :
         LET ref == DocumentoReferencia(v, lk)
             pdf == UsesPdf(c, usar, ref)
             txt == ExtractPdfTextFromUrl(f, p, s).out
         IN  call' = [fn |-> "xlsx_doc_row", como |-> c, valor |-> v, link |-> lk,
                      usar |-> usar, documento_referencia |-> ref,
                      pdf |-> pdf,
                      fetched |-> IF pdf THEN ref ELSE NoVal,
                      extracted |-> IF pdf THEN txt ELSE << >>,
                      como_fazer |-> IF pdf THEN StripText(txt) ELSE ComoFazerCell(c),
                      rowOut |-> RowOutcome(ValidRow, "none")]
    /\ UNCHANGED <<store, ingVars, req, multi, crud>>

\* ------------------------------------------------------------------
\* "Porcentagem" and "Concluído" of a row, and the status that comes of
\* them (both row loops)
\* ------------------------------------------------------------------
\* a cell: empty, text that is no number, or a number (kept in tenths)
NoCell == [kind |-> "none", tenths |-> 0, text |-> ""]
TextCell(t) == [kind |-> "text", tenths |-> 0, text |-> t]
NumCell(n) == [kind |-> "num", tenths |-> n, text |-> ""]

PorcentagemCells ==
    {NoCell, TextCell("abc"), TextCell("50%")} \cup
    {NumCell(n) : n \in {-50, -5, 0, 5, 10, 500, 995, 1000, 1004, 1500}}
ConcluidoCells == {NoCell, TextCell("Sim"), TextCell("não"), NumCell(10)}

\* _normalize_bool: str(v).strip().lower() in {"1", "true", ..., "sim", ...};
\* the number 1 of a worksheet cell is the integer 1, and str(1) is "1"
NormalizeBool(c) ==
    \/ c.kind = "text" /\ c.text \in {"Sim", "sim"}
    \/ c.kind = "num" /\ c.tenths = 10
\* int(float(porc)): the fraction is cut off, towards zero
IntOfFloat(n) == IF n >= 0 THEN n \div 10 ELSE -((-n) \div 10)

\* (a percentage taken as it stands, with no clamp)
Porc_NoClamp(p, c) ==
    IF p.kind = "none" THEN (IF NormalizeBool(c) THEN 100 ELSE 0)
    ELSE IF p.kind = "text" THEN 0
    ELSE IntOfFloat(p.tenths)
\* porc: the cell, else 100 or 0 after "Concluído"; 0 when it is no number;
\* then max(0, min(100, porc))
Porc(p, c) ==
    LET raw == IF p.kind = "none" THEN (IF NormalizeBool(c) THEN 100 ELSE 0)
               ELSE IF p.kind = "text" THEN 0
               ELSE IntOfFloat(p.tenths)
        lo == IF raw > 100 THEN 100 ELSE raw
    IN  IF lo < 0 THEN 0 ELSE lo

\* the status argument of TarefaCreate(...)
StatusOfPorc(porc) ==
    IF porc = 0 THEN "não iniciada"
    ELSE IF porc = 100 THEN "concluída"
    ELSE "em andamento"

\* Tarefa(...) for the row and "if tarefa.status == CONCLUIDA:
\* tarefa.dataConclusao = utcnow()", as far as status goes
TarefaStatus(porc) ==
    [status |-> StatusOfPorc(porc),
     dataConclusao |-> IF StatusOfPorc(porc) = "concluída" THEN Hoje ELSE NoDate]

\* the row is ValidRow in every other column
CallRowStatus ==
    /\ IdleCall
    /\ \E p \in PorcentagemCells, c \in ConcluidoCells :
         call' = [fn |-> "row_status", porcentagem |-> p, concluido |-> c,
                  porc |-> Porc(p, c),
                  status |-> TarefaStatus(Porc(p, c)).status,
                  dataConclusao |-> TarefaStatus(Porc(p, c)).dataConclusao,
                  rowOut |-> RowOutcome(ValidRow, "none")]
    /\ UNCHANGED <<store, ingVars, req, multi, crud>>

\* ------------------------------------------------------------------
\* The requests on the records (main.py): POST and DELETE of employees,
\* projects and tasks, PUT of a task. A record is named in a request by
\* what the model links it by: the e-mail of an employee, the name of a
\* project, the position of a task.
\* ------------------------------------------------------------------
\* projects and employees the store may hold
MaxProjetos == 2
MaxFuncionarios == 4
\* requests on the records in one run
MaxRequests == 3

Remove(seq, i) == SubSeq(seq, 1, i - 1) \o SubSeq(seq, i + 1, Len(seq))

NoCrud ==
    [r \in 1..MaxRequests |-> [pc |-> "idle", op |-> "-", email |-> "", resp |-> 0]]
\* no request on the records yet
IdleCrud == crud = NoCrud

\* the r-th request of the run arrives
Arrives(r) == crud[r].pc = "idle" /\ \A q \in 1..(r - 1) : crud[q].pc # "idle"
\* a request served in one step
Answered(op, resp) == [pc |-> "done", op |-> op, email |-> "", resp |-> resp]

\* the e-mail a new employee comes with
NewEmails == {"ghost@ache.com"}
NovoFuncionario(email) ==
    [nome |-> <<"Ghost">>, sobrenome |-> <<"Silva">>, email |-> email]

\* criar_funcionario up to its first await: find_one by e-mail, 400 when
\* there is one
CriarFuncionarioCheck ==
    /\ \E r \in 1..MaxRequests, email \in NewEmails :
         /\ Arrives(r)
         /\ crud' = [crud EXCEPT ![r] =
                IF FuncionarioByEmail(email) # 0
                THEN [pc |-> "done", op |-> "criar_funcionario", email |-> email,
                      resp |-> 400]
                ELSE [pc |-> "checked", op |-> "criar_funcionario", email |-> email,
                      resp |-> 0]]
    /\ UNCHANGED <<store, ingVars, req, multi, call>>

\* criar_funcionario after the check: the insert
CriarFuncionarioInsert ==
    /\ \E r \in 1..MaxRequests :
         /\ crud[r].pc = "checked"
         /\ Len(funcionarios) < MaxFuncionarios
         /\ funcionarios' = Append(funcionarios, NovoFuncionario(crud[r].email))
         /\ crud' = [crud EXCEPT ![r].pc = "done", ![r].resp = 200]
    /\ UNCHANGED <<projetos, tarefas, ingVars, req, multi, call>>

\* deletar_funcionario: the employee, and nothing else
DeletarFuncionario ==
    /\ \E i \in 1..Len(funcionarios) : funcionarios' = Remove(funcionarios, i)
    /\ \E r \in 1..MaxRequests :
         Arrives(r) /\ crud' = [crud EXCEPT ![r] = Answered("deletar_funcionario", 204)]
    /\ UNCHANGED <<projetos, tarefas, ingVars, req, multi, call>>

\* criar_projeto: 404 when the responsible employee is not found
CriarProjeto ==
    /\ Len(projetos) < MaxProjetos
    /\ \E email \in {"ana@ache.com"} :
         /\ FuncionarioByEmail(email) # 0
         /\ projetos' = Append(projetos,
                [nome |-> <<"Ghost">>, situacao |-> "não iniciada",
                 prazo |-> Hoje + 30, responsavel |-> email])
    /\ \E r \in 1..MaxRequests :
         Arrives(r) /\ crud' = [crud EXCEPT ![r] = Answered("criar_projeto", 200)]
    /\ UNCHANGED <<funcionarios, tarefas, ingVars, req, multi, call>>

\* deletar_projeto: the project, and nothing else
DeletarProjeto ==
    /\ \E i \in 1..Len(projetos) : projetos' = Remove(projetos, i)
    /\ \E r \in 1..MaxRequests :
         Arrives(r) /\ crud' = [crud EXCEPT ![r] = Answered("deletar_projeto", 204)]
    /\ UNCHANGED <<funcionarios, tarefas, ingVars, req, multi, call>>

\* criar_tarefa: 404 when the project or the employee is not found; the
\* status is the one of the request (by default "não iniciada") and
\* dataConclusao is not a field of TarefaCreate
CriarTarefa ==
    /\ Len(tarefas) < MaxTarefas
    /\ \E nome \in {"Alpha", "Ghost"}, email \in {"ana@ache.com", "ghost@ache.com"},
          status \in StatusTarefa :
         /\ ProjetoByNome(nome) # 0
         /\ FuncionarioByEmail(email) # 0
         /\ tarefas' = Append(tarefas,
                [nome |-> <<"T2">>, projeto |-> <<nome>>, responsavel |-> email,
                 prazo |-> Hoje + 10, status |-> status, dataConclusao |-> NoDate])
    /\ \E r \in 1..MaxRequests :
         Arrives(r) /\ crud' = [crud EXCEPT ![r] = Answered("criar_tarefa", 200)]
    /\ UNCHANGED <<projetos, funcionarios, ingVars, req, multi, call>>

\* a field of TarefaUpdate left out of the request
Unset == "<unset>"

\* atualizar_tarefa: the new assignee when one is given (404 when not
\* found), dataConclusao stamped when the status given is "concluída",
\* then every field given is set
AtualizarTarefa ==
    /\ \E i \in 1..Len(tarefas), status \in StatusTarefa \cup {Unset},
          email \in {Unset, "ana@ache.com", "bia@ache.com"} :
         /\ status # Unset \/ email # Unset
         /\ email # Unset => FuncionarioByEmail(email) # 0
         /\ tarefas' = [tarefas EXCEPT
                ![i].responsavel = IF email = Unset THEN @ ELSE email,
                ![i].dataConclusao = IF status = "concluída" THEN Hoje ELSE @,
                ![i].status = IF status = Unset THEN @ ELSE status]
    /\ \E r \in 1..MaxRequests :
         Arrives(r) /\ crud' = [crud EXCEPT ![r] = Answered("atualizar_tarefa", 200)]
    /\ UNCHANGED <<projetos, funcionarios, ingVars, req, multi, call>>

\* deletar_tarefa
DeletarTarefa ==
    /\ \E i \in 1..Len(tarefas) : tarefas' = Remove(tarefas, i)
    /\ \E r \in 1..MaxRequests :
         Arrives(r) /\ crud' = [crud EXCEPT ![r] = Answered("deletar_tarefa", 204)]
    /\ UNCHANGED <<projetos, funcionarios, ingVars, req, multi, call>>

NextCrud ==
    \/ CriarFuncionarioCheck
    \/ CriarFuncionarioInsert
    \/ DeletarFuncionario
    \/ CriarProjeto
    \/ DeletarProjeto
    \/ CriarTarefa
    \/ AtualizarTarefa
    \/ DeletarTarefa

\* the row loop of an ingestion with requests of other clients coming in
\* between its rows
NextShared ==
    \/ IngestRow
    \/ IngestReturn
    \/ CriarFuncionarioCheck
    \/ CriarFuncionarioInsert
    \/ DeletarFuncionario
    \/ CriarProjeto
    \/ DeletarProjeto

\* ------------------------------------------------------------------
\* Initial states and specifications
\* ------------------------------------------------------------------
vars == <<store, ingVars, req, multi, call, crud>>

InitStore ==
    /\ projetos = InitProjetos
    /\ funcionarios = InitFuncionarios
    /\ tarefas = InitTarefas

\* an ingestion about to read its first row
InitIngest ==
    /\ ingPath \in {"xlsx", "df"}
    /\ headerRow \in (IF ingPath = "xlsx" THEN 0..MaxHeaderRow ELSE {1})
    /\ sheet \in (IF headerRow = 0 THEN {<< >>} ELSE Sheets)
    /\ ingPos = 0
    /\ created = 0
    /\ errors = << >>
    /\ createdRows = {}
    /\ storeFaults = {}
    /\ ingPc = "rows"
    /\ ingResult = Pending

\* no ingestion under way
IdleIngest ==
    /\ ingPath = "df"
    /\ headerRow = 1
    /\ sheet = << >>
    /\ ingPos = 0
    /\ created = 0
    /\ errors = << >>
    /\ createdRows = {}
    /\ storeFaults = {}
    /\ ingPc = "returned"
    /\ ingResult = Pending

\* no request served yet
IdleCmd == req = NoReq

\* a request with one to MaxLinks document urls, no fetch completed yet
InitMulti ==
    \E n \in 1..MaxLinks :
        multi = [NoMulti EXCEPT !.pc = "running", !.srcs = [i \in 1..n |-> PendingSource]]

\* no multi-document ingestion under way
IdleMulti == multi = NoMulti

\* the ingestion of one sheet, row by row
StartIngest == InitStore /\ InitIngest /\ IdleCmd /\ IdleMulti /\ IdleCall /\ IdleCrud
SpecIngest == StartIngest /\ [][NextIngest]_vars

\* requests to /ai/chat and /webhook, one after another
StartCmd == InitStore /\ IdleIngest /\ IdleCmd /\ IdleMulti /\ IdleCall /\ IdleCrud
SpecCmd == StartCmd /\ [][NextCmd]_vars

\* one multi-document ingestion, its fetches completing in any order
StartMulti == InitStore /\ IdleIngest /\ IdleCmd /\ InitMulti /\ IdleCall /\ IdleCrud
SpecMulti == StartMulti /\ [][NextMulti]_vars

\* calls of the helpers, one after another
NextCalls ==
    \/ CallIngestFromUrl
    \/ CallFindUser
    \/ CallFindProject
    \/ CallIngestColumns
    \/ CallSheetFetchUrl
    \/ CallExtractPdfTextFromUrl
    \/ CallXlsxDocRow
    \/ CallRowStatus
StartCalls == InitStore /\ IdleIngest /\ IdleCmd /\ IdleMulti /\ IdleCall /\ IdleCrud
SpecCalls == StartCalls /\ [][NextCalls]_vars

\* the requests on the records
StartCrud == InitStore /\ IdleIngest /\ IdleCmd /\ IdleMulti /\ IdleCall /\ IdleCrud
SpecCrud == StartCrud /\ [][NextCrud]_vars

\* rows a sheet is built from when other clients are at work
SharedRowVals ==
    {ValidRow, [ValidRow EXCEPT !.proj = "Ghost", !.email = "ghost@ache.com"]}
SharedSheets == UNION {[1..n -> SharedRowVals] : n \in 1..MaxLinkRows}

InitShared ==
    /\ ingPath \in {"xlsx", "df"}
    /\ headerRow = 1
    /\ sheet \in SharedSheets
    /\ ingPos = 0
    /\ created = 0
    /\ errors = << >>
    /\ createdRows = {}
    /\ storeFaults = {}
    /\ ingPc = "rows"
    /\ ingResult = Pending

StartShared == InitStore /\ InitShared /\ IdleCmd /\ IdleMulti /\ IdleCall /\ IdleCrud
SpecShared == StartShared /\ [][NextShared]_vars

\* ------------------------------------------------------------------
\* Properties of the row ingestion
\* ------------------------------------------------------------------
Range(f) == {f[i] : i \in DOMAIN f}

\* a row the ingestion is to accept: its project and its assignee exist in
\* the store, it has a task name and an end date can be derived
RowIsValid(row) ==
    /\ Truthy(row.proj) /\ ProjetoByNome(Strip(row.proj)) # 0
    /\ Truthy(row.email) /\ FuncionarioByEmail(Strip(row.email)) # 0
    /\ CellFilled(row.nome)
    /\ IsDate(DtFinal(row))

NonBlankRows == {k \in 1..Len(sheet) : ~IsBlankRow(sheet[k])}
ErrorRows == {e.pos : e \in {x \in Range(errors) : x.pos > 0}}
RefMotivos ==
    {"projeto_obrigatorio", "projeto_nao_encontrado",
     "responsavel_obrigatorio", "responsavel_nao_encontrado"}

\* C1 (as claimed): every valid row already processed, the store not having
\* raised on it, has had its task inserted, whatever happened to earlier rows
C1_ValidRowsInserted ==
    \A k \in 1..ingPos :
        (RowIsValid(sheet[k]) /\ k \notin storeFaults) => k \in createdRows

\* C2 (as claimed): a returned ingestion of N non-blank rows, all valid, with
\* no store failure, reports N created, no errors, and has inserted exactly
\* N tasks
C2_AllValidAllCreated ==
    ( /\ ingPc = "returned"
      /\ headerRow > 0
      /\ storeFaults = {}
      /\ \A k \in NonBlankRows : RowIsValid(sheet[k]) )
    => /\ ingResult.criadas = Cardinality(NonBlankRows)
       /\ ingResult.erros = << >>
       /\ Len(tarefas) = Len(InitTarefas) + Cardinality(NonBlankRows)

\* C3 (as claimed): at the end, created plus the number of distinct rows in
\* the error list is at most the number of non-blank rows, and no row is
\* both created and in the error list
C3_CreatedPlusFailedBounded ==
    ingPc = "returned" =>
        /\ created + Cardinality(ErrorRows) <= Cardinality(NonBlankRows)
        /\ createdRows \cap ErrorRows = {}

\* C4 (as claimed): a blank row is neither counted as created nor reported
\* as an error, on either path
C4_BlankRowsSilent ==
    \A k \in 1..ingPos :
        IsBlankRow(sheet[k]) => (k \notin createdRows /\ k \notin ErrorRows)

\* C5 (as claimed): the row number of an error about the project or the
\* assignee reference is the row's position among the data rows
C5_LinhaIsDataPosition ==
    \A e \in Range(errors) : e.motivo \in RefMotivos => e.linha = e.pos

\* C5 (amended): the row number is the row's line in the sheet, the header
\* counted: header row plus position in the worksheet, position plus one
\* in the DataFrame
C5_LinhaIsSheetLine ==
    \A e \in Range(errors) :
        e.motivo \in RefMotivos =>
            e.linha = (IF ingPath = "xlsx" THEN headerRow ELSE 1) + e.pos

C5_Witness ==
    /\ ingPath = "df"
    /\ \E e \in Range(errors) :
          e.motivo = "responsavel_nao_encontrado" /\ e.pos = 2 /\ e.linha = 3

\* the row names a project, or an assignee, that the store does not hold
UnresolvedProject(row) == Truthy(row.proj) /\ ProjetoByNome(Strip(row.proj)) = 0
UnresolvedAssignee(row) ==
    /\ Truthy(row.proj) /\ ProjetoByNome(Strip(row.proj)) # 0
    /\ Truthy(row.email) /\ FuncionarioByEmail(Strip(row.email)) = 0
\* the row went through the try block and the store did not raise on it
Examined(k) ==
    /\ k \notin storeFaults
    /\ ~(SkipsBlank(ingPath) /\ IsBlankRow(sheet[k]))
ErrorsOf(k) == {j \in 1..Len(errors) : errors[j].pos = k}

\* C14: a task is inserted for a row only if its project and its assignee
\* resolve and it has a name and an end date; a row whose project or
\* assignee does not resolve inserts nothing and has one error, its own
C14_InsertOnlyResolvedRows ==
    /\ Len(tarefas) = Len(InitTarefas) + Cardinality(createdRows)
    /\ \A k \in 1..ingPos :
         /\ k \in createdRows => RowIsValid(sheet[k])
         /\ Cardinality(ErrorsOf(k)) <= 1
         /\ (Examined(k) /\ UnresolvedProject(sheet[k])) =>
               /\ k \notin createdRows
               /\ \E j \in ErrorsOf(k) : errors[j].motivo = "projeto_nao_encontrado"
         /\ (Examined(k) /\ UnresolvedAssignee(sheet[k])) =>
               /\ k \notin createdRows
               /\ \E j \in ErrorsOf(k) : errors[j].motivo = "responsavel_nao_encontrado"

\* a sheet gone through with a row of unknown project and a row of unknown
\* assignee, each with its error, and nothing inserted for them
C14_Witness ==
    /\ ingPc = "returned"
    /\ \E k, l \in 1..ingPos :
         /\ Examined(k) /\ UnresolvedProject(sheet[k])
         /\ Examined(l) /\ UnresolvedAssignee(sheet[l])
         /\ Len(errors) >= 2
         /\ createdRows \cap {k, l} = {}

\* ------------------------------------------------------------------
\* Properties of the command path
\* ------------------------------------------------------------------
\* handle_command was called for the last request
Served == req.ret # "-"

\* C6: executado is True only when the mutation reported has been applied:
\* the save or insert of a deadline, assignee, status or add-task command
\* completed, and an ingestion inserted at least one record
C6_ExecutadoMeansApplied ==
    (Served /\ req.executado) =>
        IF req.ran = <<"ingest">> THEN req.criados > 0 /\ req.writes = req.criados
        ELSE req.writes = 1

\* C7: an exception raised while a matched command runs reaches the caller
\* as {executado: False}, for /ai/chat and for /webhook
C7_ExceptionsBecomeFailures ==
    (Served /\ req.ret = "raise") => (req.resp = "ACOES_FALHOU" /\ ~req.executado)

IsPrefix(a, b) == Len(a) <= Len(b) /\ SubSeq(b, 1, Len(a)) = a

\* the patterns are tried in their order, the first that matches runs its
\* handler and none after it is tried
FirstMatchWins ==
    /\ Len(req.ran) <= 1
    /\ IsPrefix(req.tried, PatternOrder)
    /\ \A k \in 1..Len(req.tried) :
         Matches(req.tried[k], req.texto) <=> (k = Len(req.tried) /\ req.ran = <<req.tried[k]>>)
    /\ req.ran = << >> => req.tried = PatternOrder

C9_AssistantOnlyWhenNoCommand ==
    Served =>
        /\ req.ret = "none" <=> (\A pat \in Range(PatternOrder) : ~Matches(pat, req.texto))
        /\ req.ia <=> req.ret = "none"

\* ------------------------------------------------------------------
\* Properties of the multi-document ingestion
\* ------------------------------------------------------------------
\* C10: whatever the order in which the fetches complete, every document of
\* the request has its own entry in the result, a failed one with its error
\* and every other with one item for each of its links
C10_SiblingsProcessed ==
    multi.pc = "returned" =>
        /\ multi.documentos_processados = Len(multi.srcs)
        /\ Len(multi.resultados) = Len(multi.srcs)
        /\ \A i \in 1..Len(multi.srcs) :
             LET e == multi.resultados[i]
                 f == multi.srcs[i].f
             IN  /\ e.doc = i
                 /\ e.ok = f.ok
                 /\ ~f.ok => e.erro # ""
                 /\ f.ok => /\ Len(e.itens) = Len(f.links)
                            /\ \A k \in 1..Len(f.links) : e.itens[k].ok = f.links[k].ok

\* a batch returned in which the first document could not be fetched and
\* the second was ingested, one of its links failing and the other not
C10_Witness ==
    /\ multi.pc = "returned"
    /\ Len(multi.srcs) >= 2
    /\ ~multi.srcs[1].f.ok
    /\ multi.resultados[2].ok
    /\ \E k, l \in 1..Len(multi.resultados[2].itens) :
         multi.resultados[2].itens[k].ok /\ ~multi.resultados[2].itens[l].ok

\* ------------------------------------------------------------------
\* Properties of the helpers
\* ------------------------------------------------------------------
\* C11: a first GET that timed out or met a non-success status is the only
\* GET made, and the result carries an error: it is neither an ingestion
\* without error nor a document of another type
C11_FailedFetchIsTerminalError ==
    (call.fn = "ingest_from_url" /\ call.g1 # "ok") =>
        /\ call.out.gets = 1
        /\ call.out.erro

\* the employees each strategy of the assignee lookup finds
ByEmail(F, g) == {i \in 1..Len(F) : Len(g) = 1 /\ F[i].email = g[1]}
ByParts(F, g) ==
    {i \in 1..Len(F) :
        /\ Len(g) >= 2
        /\ Contains(Lower(Chars(F[i].nome)), Lower(Chars(<<g[1]>>)))
        /\ Contains(Lower(Chars(F[i].sobrenome)), Lower(Chars(<<g[Len(g)]>>)))}
ByNome(F, g) == {i \in 1..Len(F) : Contains(Lower(Chars(F[i].nome)), Lower(Chars(g)))}

\* C12: the assignee lookup gives the employee with that e-mail when there
\* is one, else one matching first and last word on name and surname, else
\* one whose name holds the token, and nobody only when all three find none
C12_AssigneeStrategiesInOrder ==
    call.fn = "find_user" =>
        LET F == call.F
            g == call.token
            E == ByEmail(F, g)
            P == ByParts(F, g)
            N == ByNome(F, g)
        IN  /\ E # {} => call.out \in E
            /\ (E = {} /\ P # {}) => call.out \in P
            /\ (E = {} /\ P = {} /\ N # {}) => call.out \in N
            /\ call.out = 0 <=> (E = {} /\ P = {} /\ N = {})

\* the token is the e-mail of one employee and part of the name of an
\* earlier one: the lookup gave the employee with the e-mail
C12_Witness ==
    /\ call.fn = "find_user"
    /\ ByEmail(call.F, call.token) # {}
    /\ \E i \in ByNome(call.F, call.token) : i \notin ByEmail(call.F, call.token)
    /\ call.out \in ByEmail(call.F, call.token)

\* C13: a name that is the name of a stored project but for the case of its
\* letters resolves that project in the command router and in the row loops
C13_ProjectLookupIgnoresCase ==
    (/\ call.fn = "find_project"
     /\ \E i \in 1..Len(projetos) :
            Lower(Chars(projetos[i].nome)) = Lower(Chars(<<call.nome>>)))
    => /\ call.cmd # 0
       /\ call.row # 0
       /\ call.rowOut # "projeto_nao_encontrado"

\* the required columns of each kind of dataset
KnownSignatures == {TaskCols, ProjectCols, PersonCols}

\* C15: a dataset whose columns hold no signature is rejected with one
\* error, of the dataset and of no row, and nothing is inserted
C15_UnknownSchemaOneError ==
    (/\ call.fn = "ingest_columns"
     /\ \A sig \in KnownSignatures : ~(sig \subseteq call.cols))
    => /\ call.criadas = 0
       /\ Len(call.erros) = 1
       /\ \A j \in 1..Len(call.erros) : call.erros[j].pos = 0

\* ------------------------------------------------------------------
\* Properties of the commands on completion
\* ------------------------------------------------------------------
\* C16: the sentence that sets the completion of task T1 to 100 is a
\* command: it is executed, and the task is then complete with its
\* completion date stamped
C16_PercentageCommand ==
    (/\ Served
     /\ req.texto = <<"muda", "a", "porcentagem", "da", "tarefa", "T1", "para", "100">>)
    => /\ req.ret = "ok"
       /\ \E i \in 1..Len(tarefas) :
            /\ tarefas[i].nome = <<"T1">>
            /\ tarefas[i].status = "concluída"
            /\ tarefas[i].dataConclusao # NoDate

\* the tasks of a project, and the status their completion comes to
TasksOf(i) == {j \in 1..Len(tarefas) : tarefas[j].projeto = projetos[i].nome}
Rollup(i) ==
    IF \A j \in TasksOf(i) : tarefas[j].status = "concluída" THEN "concluída"
    ELSE IF \A j \in TasksOf(i) : tarefas[j].status = "não iniciada" THEN "não iniciada"
    ELSE "em andamento"

\* C17: when a project-deadline command or a command on the completion of
\* a task has been executed, the status of every project with tasks is the
\* one its tasks come to
C17_ProjectStatusRolledUp ==
    (/\ Served
     /\ req.executado
     /\ req.ran \in { <<"proj_prazo">>, <<"status">> })
    => \A i \in 1..Len(projetos) : TasksOf(i) # {} => projetos[i].situacao = Rollup(i)

\* ------------------------------------------------------------------
\* Properties of the url of a Google sheet
\* ------------------------------------------------------------------
GidParts == {"?gid=7", "#gid=7", "&gid=7"}
HasGid(u) == \E g \in GidParts : HasPart(u, g)

\* C18: a share url with /edit and gid=<n> becomes the export url and still
\* carries the gid; a url without /edit gets the export suffix; a url in
\* export form is left as it is
C18_SheetUrlRewritten ==
    call.fn = "sheet_url" =>
        LET u == call.url
            out == call.out
        IN  IF HasPart(u, ExportSuffix) THEN out = u
            ELSE /\ HasPart(out, ExportSuffix)
                 /\ ~HasPart(out, "/edit")
                 /\ (HasPart(u, "/edit") /\ HasGid(u)) => HasGid(out)

\* ------------------------------------------------------------------
\* Properties of the document reference and of the text of its PDF
\* ------------------------------------------------------------------
HasTarget(lk) == lk # NoHyperlink /\ lk # NoVal

PrimaryGaveText(p) == p # Raises /\ StripText(p) # << >>

\* the chain of the two extractors, as _extract_pdf_text_from_url runs it
ExtractionChain ==
    call.fn = "extract_pdf" =>
        /\ ~call.raised
        /\ call.fetch # "bytes" => call.out = << >>
        /\ call.fetch = "bytes" =>
              /\ call.secondary <=> ~PrimaryGaveText(call.primary)
              /\ ~call.secondary => call.out = StripText(call.primary)
              /\ (call.secondary /\ call.second.raises) => call.out = << >>
\* a row whose PDF gave no text is inserted, its how-to left unset
RowOfEmptyPdfIngested ==
    (call.fn = "xlsx_doc_row" /\ call.pdf /\ call.extracted = << >>) =>
        /\ call.rowOut = "criada"
        /\ call.como_fazer = NoText

\* C20: the secondary extractor runs if and only if the primary one failed
\* or returned no text; otherwise the trimmed text of the primary is the
\* result; when both fail, or the fetch fails, the result is empty and
\* nothing is raised, and the row is still ingested with no how-to
C20_ExtractionChainAndRow == ExtractionChain /\ RowOfEmptyPdfIngested

\* ------------------------------------------------------------------
\* Properties of the order of the rows
\* ------------------------------------------------------------------
\* the row has its outcome: skipped as blank, counted, or in the error list
Settled(k) ==
    \/ SkipsBlank(ingPath) /\ IsBlankRow(sheet[k])
    \/ k \in createdRows
    \/ ErrorsOf(k) # {}

\* C21: the rows of a dataset are taken one at a time in the order of the
\* sheet: when the loop has made n passes, the first n rows have their
\* outcome and no later row has been touched, and the error list is in
\* increasing order of row
C21_RowsInSourceOrder ==
    /\ \A k \in 1..Len(sheet) :
         IF k <= ingPos THEN Settled(k)
         ELSE k \notin createdRows /\ ErrorsOf(k) = {}
    /\ \A i, j \in 1..Len(errors) :
         i < j => (errors[i].pos < errors[j].pos /\ errors[i].linha < errors[j].linha)
\* a sheet gone through with errors on two rows, a row between them left out
C21_Witness ==
    /\ ingPc = "returned"
    /\ Len(sheet) = 3
    /\ Len(errors) = 2
    /\ errors[1].pos = 1
    /\ errors[2].pos = 3

\* ------------------------------------------------------------------
\* Properties of an ingestion among the requests of other clients
\* ------------------------------------------------------------------
HoldsProjeto(P, nome) == \E i \in 1..Len(P) : P[i].nome = <<nome>>
HoldsFuncionario(F, email) == \E i \in 1..Len(F) : F[i].email = email

\* the pass of the loop over row k ends with the reason m
EndsWith(k, m) ==
    /\ errors' = Append(errors, [linha |-> Linha(k), motivo |-> m, pos |-> k])
    /\ tarefas' = tarefas

\* C22: the project and the assignee of a row are looked up in the store as
\* it is when the row is processed: a row whose project is not in the store
\* at that moment gets "project not found", a row whose project is there
\* and whose assignee is not gets "assignee not found", and a row that has
\* both goes on to the insert, whatever earlier rows of the batch found
C22_LookupAfreshPerRow ==
    [][ (ingPos' = ingPos + 1 /\ (ingPos + 1) \notin storeFaults') =>
          LET k == ingPos + 1
              row == sheet[k]
              hasP == HoldsProjeto(projetos, Strip(row.proj))
              hasF == HoldsFuncionario(funcionarios, Strip(row.email))
          IN  /\ ~hasP => EndsWith(k, "projeto_nao_encontrado")
              /\ (hasP /\ ~hasF) => EndsWith(k, "responsavel_nao_encontrado")
              /\ (hasP /\ hasF) =>
                    \/ k \in createdRows'
                    \/ EndsWith(k, "excecao_validacao") ]_vars
\* two rows naming the same project and assignee, with different outcomes:
\* the store changed between them
C22_Witness ==
    /\ ingPc = "returned"
    /\ Len(sheet) = 2
    /\ sheet[1] = sheet[2]
    /\ Len(errors) = 2
    /\ errors[1].motivo = "projeto_nao_encontrado"
    /\ errors[2].motivo = "excecao_validacao"

C24_AddTaskCommand ==
    [][ (req'.ran = <<"add_tarefa">> /\ req'.ret # "raise") =>
          LET m == Parsed[req'.texto].add_tarefa
              i == FindProject(projetos, m.g2)
              u == FindUser(funcionarios, m.g3)
          IN  /\ projetos' = projetos
              /\ funcionarios' = funcionarios
              /\ IF i # 0 /\ u # 0
                 THEN /\ req'.executado
                      /\ tarefas' = Append(tarefas,
                            [nome |-> m.g1, projeto |-> projetos[i].nome,
                             responsavel |-> funcionarios[u].email,
                             prazo |-> Hoje + 7, status |-> "não iniciada",
                             dataConclusao |-> NoDate])
                 ELSE /\ ~req'.executado
                      /\ req'.ret = "fail"
                      /\ tarefas' = tarefas ]_vars
\* the command served: task T2 is in project Alpha, given to Bia
C24_Witness ==
    /\ req.ran = <<"add_tarefa">>
    /\ req.executado
    /\ Len(tarefas) = Len(InitTarefas) + 1
    /\ tarefas[Len(tarefas)].nome = <<"T2">>
    /\ tarefas[Len(tarefas)].projeto = <<"Alpha">>
    /\ tarefas[Len(tarefas)].responsavel = "bia@ache.com"
    /\ tarefas[Len(tarefas)].prazo = Hoje + 7

\* ------------------------------------------------------------------
\* Properties of the commands that fail
\* ------------------------------------------------------------------
MutationPatterns == {"proj_prazo", "tarefa_prazo", "add_tarefa", "responsavel", "status"}

\* C25: a deadline, add-task, assignee or status command that returns
\* executado false (project, task or assignee not found, date not
\* understood) leaves every record as it was
C25_FailedCommandWritesNothing ==
    [][ (req'.ret = "fail" /\ \E pat \in MutationPatterns : req'.ran = <<pat>>) =>
          /\ projetos' = projetos
          /\ funcionarios' = funcionarios
          /\ tarefas' = tarefas
          /\ req'.writes = 0
          /\ ~req'.executado ]_vars
\* the project was found and the date was not understood: nothing written
C25_Witness ==
    /\ req.ran = <<"proj_prazo">>
    /\ req.ret = "fail"
    /\ req.msg = "data_nao_entendida"
    /\ FindProject(projetos, Parsed[req.texto].proj_prazo.g1) # 0
    /\ projetos = InitProjetos

\* ------------------------------------------------------------------
\* Properties of the records
\* ------------------------------------------------------------------
\* C26: a stored task is "concluída" if and only if its completion date is
\* set
C26_CompleteIffDated ==
    \A i \in 1..Len(tarefas) :
        (tarefas[i].status = "concluída") <=> (tarefas[i].dataConclusao # NoDate)

\* C27: the store never holds two employees with the same e-mail
C27_EmailsUnique ==
    \A i, j \in 1..Len(funcionarios) :
        funcionarios[i].email = funcionarios[j].email => i = j

\* C28: the project and the assignee of every task, and the responsible
\* employee of every project, are records of the store
C28_LinksResolve ==
    /\ \A i \in 1..Len(tarefas) :
         /\ \E p \in 1..Len(projetos) : projetos[p].nome = tarefas[i].projeto
         /\ \E f \in 1..Len(funcionarios) : funcionarios[f].email = tarefas[i].responsavel
    /\ \A p \in 1..Len(projetos) :
         \E f \in 1..Len(funcionarios) : funcionarios[f].email = projetos[p].responsavel

\* ------------------------------------------------------------------
\* Properties of the session of /webhook
\* ------------------------------------------------------------------
\* C29: a /webhook request with no token, a token that does not validate or
\* a token of no stored employee gets the invalid-session reply: no pattern
\* is tried, the assistant is not called and no record changes
C29_NoSessionNoCommand ==
    [][ (req'.caller = "webhook" /\ req'.token # "valido") =>
          /\ req'.resp = "sessao_invalida"
          /\ req'.tried = << >>
          /\ req'.ret = "-"
          /\ ~req'.ia
          /\ ~req'.executado
          /\ projetos' = projetos
          /\ funcionarios' = funcionarios
          /\ tarefas' = tarefas ]_vars
\* a command sentence sent with a token that does not validate
C29_Witness ==
    /\ req.caller = "webhook"
    /\ req.token = "invalido"
    /\ req.resp = "sessao_invalida"
    /\ Matches("status", req.texto)
    /\ tarefas = InitTarefas

====
